---- MODULE Spec2Model ----
(***************************************************************************)
(* PetWalk: safe walking time windows, hourly comfort score, the merge of  *)
(* the destination candidates, the radius of the place queries, route      *)
(* scoring and ranking, in the                                              *)
(* deterministic path of app.py and the external-scorer path of the        *)
(* recommendation tool.                                                    *)
(*                                                                         *)
(* Numbers.  The code computes on floats.  Temperatures and wind speeds    *)
(* are modelled in hundredths (2400 is 24.00 degrees, 100 is 1.00 m/s),    *)
(* humidity in whole percent.  All constants of the code (4.0, 1.0, 0.5,   *)
(* 6, 25.0 ...) are multiples of 0.5, so on inputs with two decimals every *)
(* comparison and every int() of the code has the value the exact          *)
(* arithmetic below gives.                                                 *)
(*                                                                         *)
(* Strings.  Dog sizes are the keys of SIZE_THRESH: "small" stands for     *)
(* the key for small dogs, "medium" and "large" likewise; "other" is any   *)
(* string that is no key.  A time string is the record [kind, d, h, sep]:  *)
(* kind "iso" is "YYYY-MM-DD?HH:MM" with day number d, hour h and the       *)
(* separator character sep; kind "text" is a 16-character string that      *)
(* starts with a letter (such as "tomorrow morning"); kind "short" is a     *)
(* string of fewer than 16 characters (such as "" or "06:00").             *)
(* Strings the code searches (the kind of a place) are sequences of        *)
(* characters, <<>> standing for None.  Coordinates are in millionths of   *)
(* a degree.                                                               *)
(***************************************************************************)
EXTENDS Integers, Sequences, FiniteSets, TLC

VARIABLES
    pc,         \* position of the call being modelled
    dog_size,   \* profile: size key
    age_years,  \* profile: age
    hourly,     \* the hourly samples passed to the function
    windows,    \* value returned by recommend_time_windows
    score,      \* value returned by _hourly_score
    tw_response,   \* what the LLM answered to the time-window request
    time_windows,  \* _tool_recommend: time_windows
    rows,          \* _tool_recommend: rows (RecommendResult.time_windows)
    k,             \* _tool_recommend: k, the clipped max_routes
    pois,          \* _tool_recommend: pois, the merged candidates
    sel_response,  \* what the LLM answered to the destination request
    sent_pois,     \* the "pois" entry of the destination request
    picks,         \* _tool_recommend: picks
    max_routes,    \* payload: max_routes
    route_results, \* what route_walking answers for each destination
    pois_raw,      \* _tool_recommend: pois_raw, the answer of get_pois
    extra_pet,     \* _tool_recommend: extra_pet, the pet-friendly places
    chosen_routes, \* _tool_recommend: chosen_routes, in completion order
    score_response,\* what the LLM answered to the route-scoring request
    final_routes,  \* _tool_recommend: final_routes before the sort
    routes,        \* the routes returned (RecommendResult.routes / app.py)
    radius_m,      \* payload: radius_m
    radius_m_eff   \* _tool_recommend: radius_m_eff, the radius of the POI queries

coreVars == <<windows, score>>
agentVars == <<tw_response, time_windows, rows, k, pois, sel_response,
               sent_pois, picks>>
routeVars == <<route_results, chosen_routes, score_response, final_routes,
               routes>>
radiusVars == <<radius_m, radius_m_eff>>
planVars == <<max_routes, radiusVars, pois_raw, extra_pet, routeVars>>
vars == <<pc, dog_size, age_years, hourly, coreVars, agentVars, planVars>>

-----------------------------------------------------------------------------
(* Bounds of the model *)

\* longest hourly sequence given to recommend_time_windows
MaxLen == 4

\* most entries in the "windows" list of an LLM answer
MaxWin == 2

\* most entries in the "selections" list of an LLM answer
MaxSel == 2
MaxPrimary == 3
MaxPet == 2
MaxPicks == 2
MaxDetPois == 4

-----------------------------------------------------------------------------
(* Time strings *)

\* "T" in h["time"] ... int(h["time"].split("T")[1][:2]), else 0
HourOf(time) == IF time.sep = "T" THEN time.h ELSE 0

\* h["time"].replace("T", " ")
ReplaceT(time) == [time EXCEPT !.sep = " "]

\* datetime.fromisoformat(s.replace("T", " ")) returns a value (it raises
\* ValueError on anything else, an hour of 24 included)
Parses(time) == time.kind = "iso" /\ time.h \in 0..23

\* datetime.fromisoformat(s.replace("T", " ")), as hours since day 0
as_dt(time) == time.d * 24 + time.h

Iso(d, h, sep) == [kind |-> "iso", d |-> d, h |-> h, sep |-> sep]

\* the i-th hourly time string of a forecast that starts at hour number t0
TimeAt(t0, i) == Iso((t0 + i) \div 24, (t0 + i) % 24, "T")

-----------------------------------------------------------------------------
(* core/recommend.py *)

SIZE_THRESH == [small |-> 2500, medium |-> 2700, large |-> 2800]

\* SIZE_THRESH.get(size, 26.0), minus 1.0 when age >= 8
Threshold(size, age) ==
    LET base == IF size \in DOMAIN SIZE_THRESH THEN SIZE_THRESH[size] ELSE 2600
    IN  IF age >= 8 THEN base - 100 ELSE base

\* t_surf = h["temp"] + (4.0 if 9 <= hour <= 16 else 0.0)
SurfaceTemp(h) ==
    LET hour == HourOf(h.time)
    IN  h.temp + (IF 9 <= hour /\ hour <= 16 THEN 400 ELSE 0)

IsSafe_StrictTemp(h, threshold) ==
    (SurfaceTemp(h) < threshold) /\ (h.wind >= 100)

IsSafe_NoWind(h, threshold) == SurfaceTemp(h) <= threshold

\* safe = (t_surf <= threshold) and (h["wind"] >= 1.0)
IsSafe(h, threshold) ==
    (SurfaceTemp(h) <= threshold) /\ (h.wind >= 100)

\* The loop state is [windows, cur]; cur is <<>> for None, <<start>> for an
\* open window.
ScanStep_NoClose(st, h, threshold) ==
    LET safe == IsSafe(h, threshold)
        ts   == ReplaceT(h.time)
    IN  [windows |-> st.windows,
         cur     |-> IF safe /\ st.cur = <<>> THEN <<ts>> ELSE st.cur]

ScanStep_NoReset(st, h, threshold) ==
    LET safe == IsSafe(h, threshold)
        ts   == ReplaceT(h.time)
        cur1 == IF safe /\ st.cur = <<>> THEN <<ts>> ELSE st.cur
    IN  IF (~safe) /\ cur1 # <<>>
        THEN [windows |-> Append(st.windows, [start |-> cur1[1], end |-> ts]),
              cur     |-> cur1]
        ELSE [windows |-> st.windows, cur |-> cur1]

\* one iteration of "for h in hourly"
ScanStep(st, h, threshold) ==
    LET safe == IsSafe(h, threshold)
        ts   == ReplaceT(h.time)
        cur1 == IF safe /\ st.cur = <<>> THEN <<ts>> ELSE st.cur
    IN  IF (~safe) /\ cur1 # <<>>
        THEN [windows |-> Append(st.windows, [start |-> cur1[1], end |-> ts]),
              cur     |-> <<>>]
        ELSE [windows |-> st.windows, cur |-> cur1]

RECURSIVE ScanFrom(_, _, _, _)
ScanFrom(hr, i, st, threshold) ==
    IF i > Len(hr) THEN st
    ELSE ScanFrom(hr, i + 1, ScanStep(st, hr[i], threshold), threshold)

\* the fields of the record h that are None (null in the forecast); a record
\* built by Sample has none
Nulls(h) == IF "nulls" \in DOMAIN h THEN h.nulls ELSE {}

\* h["temp"] + 4.0 raises TypeError on None; h["wind"] >= 1.0 is evaluated,
\* and raises on None, only when t_surf <= threshold holds
SampleRaises(h, threshold) ==
    \/ "temp" \in Nulls(h)
    \/ SurfaceTemp(h) <= threshold /\ "wind" \in Nulls(h)

\* recommend_time_windows raises
rtw_raises(hr, size, age) ==
    \E i \in 1..Len(hr) : SampleRaises(hr[i], Threshold(size, age))

\* recommend_time_windows(hourly, size, age, weight); weight is not read
recommend_time_windows(hr, size, age) ==
    LET threshold == Threshold(size, age)
        st == ScanFrom(hr, 1, [windows |-> <<>>, cur |-> <<>>], threshold)
    IN  IF st.cur # <<>>
        THEN Append(st.windows,
                    [start |-> st.cur[1], end |-> ReplaceT(hr[Len(hr)].time)])
        ELSE st.windows

-----------------------------------------------------------------------------
(* app.py: hourly comfort score *)

RoundDiv_Floor(x, d) == x \div d

\* round(x / d) for d > 0, ties to the even integer (Python's round)
RoundDiv(x, d) ==
    LET q == x \div d
        r == x % d
    IN  IF 2 * r < d THEN q
        ELSE IF 2 * r > d THEN q + 1
        ELSE IF q % 2 = 0 THEN q ELSE q + 1

\* int(x / d) for an integer x and d > 0: truncation toward zero
TruncDiv(x, d) == IF x >= 0 THEN x \div d ELSE -((-x) \div d)

Clamp100_Id(s) == s

Clamp100(s) == IF s < 0 THEN 0 ELSE IF s > 100 THEN 100 ELSE s

hourly_score_NoClamp(h, threshold) ==
    LET delta == threshold - SurfaceTemp(h)
        s0 == 50 + TruncDiv(delta * 6, 100)
        s1 == IF h.wind < 50 THEN s0 - 5
              ELSE IF h.wind > 600 THEN s0 - 3 ELSE s0
    IN  IF h.rh > 75 THEN s1 - TruncDiv(h.rh - 75, 2) ELSE s1

hourly_score_Floor(h, threshold) ==
    LET delta == threshold - SurfaceTemp(h)
        s0 == 50 + ((delta * 6) \div 100)
        s1 == IF h.wind < 50 THEN s0 - 5
              ELSE IF h.wind > 600 THEN s0 - 3 ELSE s0
        s2 == IF h.rh > 75 THEN s1 - TruncDiv(h.rh - 75, 2) ELSE s1
    IN  Clamp100(s2)

\* _hourly_score(h) raises TypeError: h["temp"] + 4.0, h["wind"] < 0.5 and
\* h["rh"] > 75 are evaluated for every record, and each fails on None
ScoreRaises(h) == Nulls(h) \cap {"temp", "wind", "rh"} # {}

\* _hourly_score(h), with the threshold of the enclosing scope, for a record
\* without None (ScoreRaises(h) is false)
hourly_score(h, threshold) ==
    LET delta == threshold - SurfaceTemp(h)
        s0 == 50 + TruncDiv(delta * 6, 100)
        s1 == IF h.wind < 50 THEN s0 - 5
              ELSE IF h.wind > 600 THEN s0 - 3 ELSE s0
        s2 == IF h.rh > 75 THEN s1 - TruncDiv(h.rh - 75, 2) ELSE s1
    IN  Clamp100(s2)


-----------------------------------------------------------------------------
(* core/ai_agent.py: LLM answers *)

\* An answer is [kind, body].  kind "timeout": llm.invoke raises; "nojson":
\* the content holds no {...}; "badjson": it holds {...} that json.loads
\* rejects; "json": it parses, and body is the list under the key the caller
\* reads ("windows", "selections"), <<>> when the key is absent.
NoResponse == [kind |-> "none", body |-> <<>>]

\* _invoke_json(...) or {}, then res.get(key) or []
invoke_json(resp) ==
    CASE resp.kind = "json"   -> [raised |-> FALSE, res |-> resp.body]
      [] resp.kind = "nojson" -> [raised |-> FALSE, res |-> <<>>]
      [] OTHER                -> [raised |-> TRUE,  res |-> <<>>]

Min(a, b) == IF a <= b THEN a ELSE b

\* s[:n]
Take(s, n) == SubSeq(s, 1, Min(n, Len(s)))

\* len(str(x)[:16]) == 16
Len16(ts) == ts.kind # "short"

SepRank(ts) == IF ts.sep = " " THEN 0 ELSE 1

\* st < en on two 16-character strings: Python's lexicographic order.  A digit
\* sorts before a letter, " " before "T".
StrLess(a, b) ==
    CASE a.kind = "iso" /\ b.kind = "iso" ->
            \/ a.d < b.d
            \/ a.d = b.d /\ SepRank(a) < SepRank(b)
            \/ a.d = b.d /\ SepRank(a) = SepRank(b) /\ a.h < b.h
      [] a.kind = "iso" /\ b.kind = "text" -> TRUE
      [] OTHER -> FALSE

-----------------------------------------------------------------------------
(* core/ai_agent.py: _gpt_select_timewindows *)

\* default top_k of the time-window request
TwTopK == 3

\* A JSON score is [num, val]: num says whether int(score) returns, val is
\* the integer it returns.
\* for w in time_windows[:top_k]: ... ; the loop from entry i on
RECURSIVE ValidateWindows(_, _, _)
ValidateWindows(ws, i, out) ==
    IF i > Len(ws) THEN [raised |-> FALSE, out |-> out]
    ELSE LET w == ws[i]
         IN  IF ~w.score.num
             THEN [raised |-> TRUE, out |-> out]
             ELSE IF Len16(w.start) /\ Len16(w.end) /\ StrLess(w.start, w.end)
                  THEN ValidateWindows(ws, i + 1,
                           Append(out, [start |-> w.start, end |-> w.end,
                                        score |-> Clamp100(w.score.val)]))
                  ELSE ValidateWindows(ws, i + 1, out)

gpt_select_timewindows(resp, top_k) ==
    LET js == invoke_json(resp)
    IN  IF js.raised THEN [raised |-> TRUE, out |-> <<>>]
        ELSE ValidateWindows(Take(js.res, top_k), 1, <<>>)

-----------------------------------------------------------------------------
(* core/ai_agent.py: _tool_recommend, time windows and rows *)

\* datetime.now(JST).strftime("%Y-%m-%d"): the forecast's first day
Today == 0

FallbackWindows ==
    << [start |-> Iso(Today, 6, " "), end |-> Iso(Today, 8, " "), score |-> 75],
       [start |-> Iso(Today, 18, " "), end |-> Iso(Today, 20, " "), score |-> 70] >>

\* hrs = [h for h in hourly if sdt <= _as_dt(h["time"]) < edt]
HoursIn(hr, w) ==
    {i \in 1..Len(hr) : /\ as_dt(w.start) <= as_dt(hr[i].time)
                        /\ as_dt(hr[i].time) < as_dt(w.end)}

\* the row a window gets: its clock times and its score
Row(w) == [from_h |-> w.start.h, to_h |-> w.end.h, score |-> w.score]

\* for w in time_windows: ... rows.append(...), from window i on
RECURSIVE BuildRows(_, _, _, _)
BuildRows(tw, hr, i, acc) ==
    IF i > Len(tw) THEN acc
    ELSE IF HoursIn(hr, tw[i]) = {}
         THEN BuildRows(tw, hr, i + 1, acc)
         ELSE BuildRows(tw, hr, i + 1, Append(acc, Row(tw[i])))

\* the position a row takes in a list sorted by descending score, behind the
\* rows of equal score (list.sort is stable)
RECURSIVE InsertPos(_, _, _)
InsertPos(sorted, r, i) ==
    IF i > Len(sorted) \/ sorted[i].score < r.score THEN i
    ELSE InsertPos(sorted, r, i + 1)

InsertAt(sq, i, x) == SubSeq(sq, 1, i - 1) \o <<x>> \o SubSeq(sq, i, Len(sq))

SortByScoreDesc_Keep(rs, i, acc) == rs

\* rows.sort(key=lambda r: r["score"], reverse=True)
RECURSIVE SortByScoreDesc(_, _, _)
SortByScoreDesc(rs, i, acc) ==
    IF i > Len(rs) THEN acc
    ELSE SortByScoreDesc(rs, i + 1, InsertAt(acc, InsertPos(acc, rs[i], 1), rs[i]))

\* _tool_recommend from the time-window request to the sorted rows
TimeWindowStage(resp, hr) ==
    LET sel == gpt_select_timewindows(resp, TwTopK)
    IN  IF sel.raised
        THEN [raised |-> TRUE, time_windows |-> <<>>, rows |-> <<>>]
        ELSE LET tw == IF sel.out = <<>> THEN FallbackWindows ELSE sel.out
             IN  IF \E i \in 1..Len(tw) :
                        ~Parses(tw[i].start) \/ ~Parses(tw[i].end)
                 THEN [raised |-> TRUE, time_windows |-> tw, rows |-> <<>>]
                 ELSE [raised |-> FALSE, time_windows |-> tw,
                       rows |-> SortByScoreDesc(BuildRows(tw, hr, 1, <<>>), 1, <<>>)]

-----------------------------------------------------------------------------
(* app.py: _build_rows *)

\* hourly_today (day 0) and hourly_tomorrow (day 1): the records of the
\* forecast wx whose date is day days after the date of its first record
OnDate(wx, day) ==
    LET InDay(h) == h.time.d = wx[1].time.d + day
    IN  SelectSeq(wx, InDay)

\* sum(scores) for the samples of hr at the positions in idx
RECURSIVE SumScores(_, _, _)
SumScores(hr, idx, threshold) ==
    IF idx = {} THEN 0
    ELSE LET i == CHOOSE j \in idx : TRUE
         IN  hourly_score(hr[i], threshold) + SumScores(hr, idx \ {i}, threshold)

\* the row of the window w: int(round(sum(scores) / len(scores)))
DetRow(hr, w, threshold) ==
    LET hrs == HoursIn(hr, w)
    IN  [from_h |-> w.start.h, to_h |-> w.end.h,
         score |-> RoundDiv(SumScores(hr, hrs, threshold), Cardinality(hrs))]

\* for w in wins: ... rows.append(...), from window i on
RECURSIVE DetRowsFrom(_, _, _, _, _)
DetRowsFrom(wins, hr, threshold, i, acc) ==
    IF i > Len(wins) THEN acc
    ELSE IF HoursIn(hr, wins[i]) = {}
         THEN DetRowsFrom(wins, hr, threshold, i + 1, acc)
         ELSE DetRowsFrom(wins, hr, threshold, i + 1,
                          Append(acc, DetRow(hr, wins[i], threshold)))

\* scores = [_hourly_score(h) for h in hrs] raises for some window
RowsRaise(wins, hr) ==
    \E i \in 1..Len(wins) : \E j \in HoursIn(hr, wins[i]) : ScoreRaises(hr[j])

\* _build_rows(hourlies)
build_rows(hr, size, age) ==
    IF rtw_raises(hr, size, age) THEN [raised |-> TRUE, out |-> <<>>]
    ELSE IF RowsRaise(recommend_time_windows(hr, size, age), hr)
    THEN [raised |-> TRUE, out |-> <<>>]
    ELSE [raised |-> FALSE,
          out |-> SortByScoreDesc(
                      DetRowsFrom(recommend_time_windows(hr, size, age), hr,
                                  Threshold(size, age), 1, <<>>),
                      1, <<>>)]

-----------------------------------------------------------------------------
(* core/ai_agent.py: _gpt_select_routes *)

\* "pois": poi_items[:60]
SelectorPoiLimit == 60

\* A JSON poi_index is [int, val]: int says whether isinstance(idx, int)
\* holds, val is the integer.
\* for s in sels[:top_k]: ..., from entry i on
RECURSIVE ValidatePicks(_, _, _, _)
ValidatePicks(sels, n_items, i, out) ==
    IF i > Len(sels) THEN out
    ELSE LET idx == sels[i].poi_index
         IN  IF idx.int /\ 0 <= idx.val /\ idx.val < n_items
             THEN ValidatePicks(sels, n_items, i + 1,
                                Append(out, [poi_index |-> idx.val]))
             ELSE ValidatePicks(sels, n_items, i + 1, out)

gpt_select_routes(resp, poi_items, top_k) ==
    LET js == invoke_json(resp)
    IN  IF js.raised THEN [raised |-> TRUE, out |-> <<>>]
        ELSE [raised |-> FALSE,
              out |-> ValidatePicks(Take(js.res, top_k), Len(poi_items), 1, <<>>)]

-----------------------------------------------------------------------------
(* core/ai_agent.py: _tool_recommend merges the two candidate lists.       *)
(* A POI is a record that holds some of the fields name, lat, lon, kind,   *)
(* type, tags, pet_friendly, approx_m, distance_m; p.get(f) of a missing   *)
(* field is None.  The name "" stands for None or the empty string.  A     *)
(* kind is the sequence of its characters, because the code searches it;   *)
(* <<>> stands for None.  A coordinate is [null, val] with val in          *)
(* millionths of a degree.  tags is a record from tag keys to tag values.  *)

S_park == <<"p", "a", "r", "k">>
S_leisure_park ==
    <<"l", "e", "i", "s", "u", "r", "e", "_", "p", "a", "r", "k">>
S_foot == <<"f", "o", "o", "t">>
S_path == <<"p", "a", "t", "h">>
S_footway == <<"f", "o", "o", "t", "w", "a", "y">>
S_other == <<"o", "t", "h", "e", "r">>
S_pet_friendly ==
    <<"p", "e", "t", "_", "f", "r", "i", "e", "n", "d", "l", "y">>

\* sub in s, for a non-empty sub
Contains(s, sub) ==
    \E i \in 1..(Len(s) - Len(sub) + 1) : SubSeq(s, i, i + Len(sub) - 1) = sub

\* p.get(f), with dflt standing for None
Get(p, f, dflt) == IF f \in DOMAIN p THEN p[f] ELSE dflt

NoCoord == [null |-> TRUE, val |-> 0]
Coord(v) == [null |-> FALSE, val |-> v]

\* the literal the code puts in place of a missing name
DefaultName == "mokutekichi"

\* name = p.get("name") or <default>
PoiName(p) ==
    LET name == Get(p, "name", "") IN IF name = "" THEN DefaultName ELSE name

\* round(c or 0, 5) in units of 0.00001 degree; c.val is never half-way
Round5(c) == IF c.null THEN 0 ELSE (c.val + 5) \div 10

\* sig = (name, round(latp or 0, 5), round(lonp or 0, 5))
Sig(p) == <<PoiName(p), Round5(Get(p, "lat", NoCoord)),
            Round5(Get(p, "lon", NoCoord))>>

\* kind = p.get("kind") or p.get("type") or "other"
RawKind(p) ==
    LET kd == Get(p, "kind", <<>>)
        ty == Get(p, "type", <<>>)
    IN  IF kd # <<>> THEN kd ELSE IF ty # <<>> THEN ty ELSE S_other

\* (p.get("tags") or {})
Tags(p) == Get(p, "tags", <<>>)

\* str(v).lower() on the tag values of the inputs
Lower(v) ==
    CASE v = "Yes" -> "yes"
      [] v = "LEASHED" -> "leashed"
      [] OTHER -> v

\* pet_ok = bool(p.get("pet_friendly")) or any(... in ("yes", ...) for k in ...)
PetOk(p) ==
    \/ Get(p, "pet_friendly", FALSE)
    \/ \E key \in {"dogs", "pets", "dog", "pet"} :
         /\ key \in DOMAIN Tags(p)
         /\ Lower(Tags(p)[key]) \in {"yes", "permissive", "leashed"}

\* the strings appended to env
EnvSet(p) ==
    (IF RawKind(p) \in {S_park, S_leisure_park} THEN {"grass", "shade"} ELSE {})
    \cup (IF "water" \in DOMAIN Tags(p) THEN {"water"} ELSE {})
    \cup (IF PetOk(p) THEN {"pet_friendly"} ELSE {})

\* list(sorted(set(env))) or ["unknown"]
EnvList(p) ==
    LET InEnv(e) == e \in EnvSet(p)
        sorted == SelectSeq(<<"grass", "pet_friendly", "shade", "water">>, InEnv)
    IN  IF sorted = <<>> THEN <<"unknown">> ELSE sorted

Classify_PetFirst(p) ==
    IF Contains(RawKind(p), S_park) THEN S_park
    ELSE IF PetOk(p) THEN S_pet_friendly
    ELSE IF Contains(RawKind(p), S_foot) \/ Contains(RawKind(p), S_path)
         THEN S_footway
    ELSE S_other

\* the "kind" entry of the appended dict
Classify(p) ==
    IF Contains(RawKind(p), S_park) THEN S_park
    ELSE IF Contains(RawKind(p), S_foot) \/ Contains(RawKind(p), S_path)
         THEN S_footway
    ELSE IF PetOk(p) THEN S_pet_friendly
    ELSE S_other

\* approx = int(p.get("approx_m") or p.get("distance_m") or 0)
Approx(p) ==
    IF Get(p, "approx_m", 0) # 0 THEN p.approx_m ELSE Get(p, "distance_m", 0)

\* the dict appended to pois
Candidate(p) ==
    [name |-> PoiName(p), kind |-> Classify(p),
     lat |-> Coord(p.lat.val), lon |-> Coord(p.lon.val),
     approx_m |-> Approx(p), env |-> EnvList(p), pet_friendly |-> PetOk(p)]

MaxCandidates == 80

MergeFull_Never(out) == FALSE

\* if len(pois) >= 80: break
MergeFull(out) == Len(out) >= MaxCandidates

Skipped_NoSeen(p, seen) ==
    Get(p, "lat", NoCoord).null \/ Get(p, "lon", NoCoord).null

\* if sig in seen or (latp is None or lonp is None): continue
Skipped(p, seen) ==
    \/ Sig(p) \in seen
    \/ Get(p, "lat", NoCoord).null
    \/ Get(p, "lon", NoCoord).null

\* one turn of "for p in merged": st.stop says that the loop has left by break
MergeStep(st, p) ==
    IF st.stop THEN st
    ELSE IF MergeFull(st.out) THEN [st EXCEPT !.stop = TRUE]
    ELSE IF Skipped(p, st.seen) THEN st
    ELSE [seen |-> st.seen \cup {Sig(p)},
          out |-> Append(st.out, Candidate(p)),
          stop |-> FALSE]

\* the turns for merged[lo..hi] in order, from st; the range is halved so
\* that long lists are evaluated without deep nesting
RECURSIVE MergeRange(_, _, _, _)
MergeRange(merged, lo, hi, st) ==
    IF lo > hi THEN st
    ELSE IF lo = hi THEN MergeStep(st, merged[lo])
    ELSE LET mid == (lo + hi) \div 2
             left == MergeRange(merged, lo, mid, st)
         IN  IF left.stop THEN left ELSE MergeRange(merged, mid + 1, hi, left)

\* merged = (pois_raw or []) + (extra_pet or []) and the loop over it
MergePois(primary, extra) ==
    MergeRange(primary \o extra, 1, Len(primary) + Len(extra),
               [seen |-> {}, out |-> <<>>, stop |-> FALSE]).out

-----------------------------------------------------------------------------
(* core/recommend.py: score_route, and the route stages of _tool_recommend  *)
(* and of app.py.  What route_walking answers is the record [kind,         *)
(* distance_m, geometry]: kind "raises" when the call raises, "none" when  *)
(* it returns None, "route" when it returns a dict; geometry is the list   *)
(* of points.                                                              *)

RouteRaises == [kind |-> "raises", distance_m |-> 0, geometry |-> <<>>]
NoRoute == [kind |-> "none", distance_m |-> 0, geometry |-> <<>>]
Route(d, g) == [kind |-> "route", distance_m |-> d, geometry |-> g]

Max(a, b) == IF a > b THEN a ELSE b

\* score_route(route, pois)
score_route(route) ==
    LET kind == Get(Get(route, "poi", <<>>), "kind", <<>>)
        base == (IF kind = S_park THEN 30 ELSE 0)
                + (IF kind \in {S_footway, S_path} THEN 15 ELSE 0)
        dist == Max(1, Get(route, "distance_m", 1000))
    IN  base + Max(0, TruncDiv(40 * (1500 - Min(dist, 1500)), 1500))

\* dist_m / 1000 * 60 / 4.0 is a float product.  Where the exact quotient
\* dist_m * 15 / 1000 is a half, the product can fall beside it: of the
\* distances 0..50000, these fall below the half although the half would
\* round up, and these above it although the half would round down.
MinutesBelowHalf == {4100, 16900, 33300}
MinutesAboveHalf == {8300, 32700}

\* one_way_min = max(1, int(round(dist_m / 1000 * 60 / 4.0))), for a dist_m
\* in 0..50000
one_way_min(dist_m) ==
    IF dist_m \in MinutesBelowHalf THEN (dist_m * 15) \div 1000
    ELSE IF dist_m \in MinutesAboveHalf THEN (dist_m * 15) \div 1000 + 1
    ELSE Max(1, RoundDiv(dist_m * 15, 1000))

\* the dict appended to chosen_routes for the destination p and the route rt
ChosenRoute(p, rt) ==
    [poi |-> p, geometry |-> rt.geometry, distance_m |-> rt.distance_m,
     est_minutes_oneway |-> one_way_min(rt.distance_m),
     poi_kind |-> p.kind, environment |-> p.env]

\* the parallel fetch: results[i] answers the job of picks[i], order is the
\* order in which the jobs complete.  ThreadPoolExecutor(max_workers=0)
\* raises, and f.result() raises what the job raised.
FetchRoutes(poi_items, sels, results, order) ==
    IF sels = <<>> \/ \E i \in 1..Len(sels) : results[i].kind = "raises"
    THEN [raised |-> TRUE, out |-> <<>>]
    ELSE LET Done(i) == results[i].kind = "route"
             done == SelectSeq(order, Done)
         IN  [raised |-> FALSE,
              out |-> [j \in 1..Len(done) |->
                         ChosenRoute(poi_items[sels[done[j]].poi_index + 1],
                                     results[done[j]])]]

\* _gpt_score_routes: the loop over arr[:len(routes_for_eval)]
RECURSIVE ValidateScores(_, _, _)
ValidateScores(arr, i, out) ==
    IF i > Len(arr) THEN [raised |-> FALSE, out |-> out]
    ELSE IF ~arr[i].num THEN [raised |-> TRUE, out |-> <<>>]
    ELSE ValidateScores(arr, i + 1,
                        Append(out, [score |-> Clamp100(arr[i].val)]))

\* _gpt_score_routes(llm, dog, routes_for_eval)
gpt_score_routes(resp, routes_for_eval) ==
    LET js == invoke_json(resp)
    IN  IF js.raised THEN [raised |-> TRUE, out |-> <<>>]
        ELSE ValidateScores(Take(js.res, Len(routes_for_eval)), 1, <<>>)

\* {**r, "score": s["score"]}
Scored(r, sc) ==
    [poi |-> r.poi, geometry |-> r.geometry, distance_m |-> r.distance_m,
     est_minutes_oneway |-> r.est_minutes_oneway, poi_kind |-> r.poi_kind,
     environment |-> r.environment, score |-> sc]

\* for r, s in zip(chosen_routes, scores): final_routes.append(...)
ZipScores(chosen, scores) ==
    [i \in 1..Min(Len(chosen), Len(scores)) |->
       Scored(chosen[i], scores[i].score)]

\* the sort key (-score, distance_m): a goes before b
RouteBefore(a, b) ==
    \/ a.score > b.score
    \/ a.score = b.score /\ a.distance_m < b.distance_m

\* list.sort is stable: r goes before the first entry it is strictly before
RECURSIVE RouteInsertPos(_, _, _)
RouteInsertPos(sorted, r, i) ==
    IF i > Len(sorted) \/ RouteBefore(r, sorted[i]) THEN i
    ELSE RouteInsertPos(sorted, r, i + 1)

SortRoutes_Unsorted(rs) == rs

RECURSIVE SortRoutesFrom(_, _, _)
SortRoutesFrom(rs, i, acc) ==
    IF i > Len(rs) THEN acc
    ELSE SortRoutesFrom(rs, i + 1,
                        InsertAt(acc, RouteInsertPos(acc, rs[i], 1), rs[i]))

\* routes.sort(key=lambda x: (-x["score"], x["distance_m"]))
SortRoutes(rs) == SortRoutesFrom(rs, 1, <<>>)

\* final_routes.sort(...); routes = final_routes[:k]
RankRoutes(rs, top_k) == Take(SortRoutes(rs), top_k)

\* app.py: MAX_ROUTES
MAX_ROUTES == 3

\* app.py: the dict appended to routes
DetRoute(p, r) ==
    LET route_dict == [poi |-> p, geometry |-> r.geometry,
                       distance_m |-> r.distance_m]
    IN  [poi |-> p, geometry |-> r.geometry, distance_m |-> r.distance_m,
         score |-> score_route(route_dict)]

\* app.py: for p in pois: ..., results[i] answering route_walking for pois[i]
RECURSIVE DetLoop(_, _, _, _)
DetLoop(poi_items, results, i, acc) ==
    IF i > Len(poi_items) THEN [raised |-> FALSE, out |-> acc]
    ELSE IF results[i].kind = "raises" THEN [raised |-> TRUE, out |-> <<>>]
    ELSE IF results[i].kind = "none" \/ results[i].geometry = <<>>
         THEN DetLoop(poi_items, results, i + 1, acc)
    ELSE LET added == Append(acc, DetRoute(poi_items[i], results[i]))
         IN  IF Len(added) >= MAX_ROUTES
             THEN [raised |-> FALSE, out |-> added]
             ELSE DetLoop(poi_items, results, i + 1, added)

\* app.py: the loop, the sort and routes[:MAX_ROUTES]; an exception leaves []
DetRoutes(poi_items, results) ==
    LET r == DetLoop(poi_items, results, 1, <<>>)
    IN  IF r.raised THEN [raised |-> TRUE, out |-> <<>>]
        ELSE [raised |-> FALSE, out |-> RankRoutes(r.out, MAX_ROUTES)]

-----------------------------------------------------------------------------
(* core/ai_agent.py: _tool_recommend, the radius of the POI queries.  The    *)
(* temperature a row shows is the record [null, val]: val in tenths of a    *)
(* degree, null for the dash of a row without temperature readings.         *)

NoTemp == [null |-> TRUE, val |-> 0]
Temp10(v) == [null |-> FALSE, val |-> v]

\* temps = [h["temp"] for h in hrs if h["temp"] is not None], as positions
Temps(hr, idx) == {i \in idx : "temp" \notin Nulls(hr[i])}

RECURSIVE SumTemps(_, _)
SumTemps(hr, idx) ==
    IF idx = {} THEN 0
    ELSE LET i == CHOOSE j \in idx : TRUE
         IN  hr[i].temp + SumTemps(hr, idx \ {i})

\* the row's temperature column: f"{avg_temp:.1f}", or the dash; the averages
\* of the model are never half-way between two tenths
AvgTempShown(hr, idx) ==
    LET temps == Temps(hr, idx)
    IN  IF temps = {} THEN NoTemp
        ELSE Temp10(RoundDiv(SumTemps(hr, temps), 10 * Cardinality(temps)))

\* best_row = rows[0] if rows else None; best_avg_temp = _to_float(its
\* temperature column): the column of the window the first row was built from
BestAvgTemp(rws, tw, hr) ==
    IF rws = <<>> THEN NoTemp
    ELSE LET from == {j \in 1..Len(tw) : /\ HoursIn(hr, tw[j]) # {}
                                         /\ Row(tw[j]) = rws[1]}
             first == CHOOSE j \in from : \A j2 \in from : j <= j2
         IN  AvgTempShown(hr, HoursIn(hr, tw[first]))

\* spd_kmh * 1000
SpeedMPerHour(size) ==
    IF size = "small" THEN 3500 ELSE IF size = "medium" THEN 4000 ELSE 4500

\* base_oneway_min, 20% shorter from age 8
BaseOnewayMin(size, age) ==
    LET base == IF size = "small" THEN 12
                ELSE IF size = "medium" THEN 18 ELSE 22
    IN  IF age >= 8 THEN RoundDiv(base * 8, 10) ELSE base

\* oneway_min = max(8, int(round(base_oneway_min * factor))), with
\* factor = max(0.5, 1.0 + delta / 6.0) when delta < 0 and
\* min(1.25, 1.0 + min(delta, 5) / 20.0) otherwise, delta in tenths.  The
\* float products 10 * 0.95 and 10 * 0.85 are 9.499... and 8.500...: both
\* round to 9.
OnewayMin(size, age, best) ==
    LET base == BaseOnewayMin(size, age)
        delta == Threshold(size, age) \div 10 - best.val
    IN  IF best.null THEN Max(8, base)
        ELSE IF delta < 0
             THEN IF base = 10 /\ delta \in {-3, -9} THEN 9
                  ELSE Max(8, RoundDiv(base * Max(30, 60 + delta), 60))
             ELSE Max(8, RoundDiv(base * (200 + Min(delta, 50)), 200))

\* oneway_m = int(round(spd_kmh * 1000 * (oneway_min / 60.0)))
OnewayM(size, minutes) == RoundDiv(SpeedMPerHour(size) * minutes, 60)

\* the distances whose float product with 1.1 lies just above the half
AboveHalf == {675, 825, 875, 1425, 1575, 1725}

\* int(round(oneway_m * 1.1)), for the distances OnewayM gives
TimesOnePointOne(m) ==
    IF m \in AboveHalf THEN (11 * m + 5) \div 10 ELSE RoundDiv(11 * m, 10)

\* radius_suggest_m = max(300, min(2000, int(round(oneway_m * 1.1))))
radius_suggest(size, age, best) ==
    Max(300, Min(2000,
        TimesOnePointOne(OnewayM(size, OnewayMin(size, age, best)))))

radius_eff_Requested(requested, suggested) == requested

\* radius_m_eff = radius_suggest_m
radius_eff(requested, suggested) == suggested

\* radius_m = _to_int(payload.get("radius_m"), 800) or 800, and the radius
\* the queries are made with
radius_stage(requested, size, age, best) ==
    radius_eff(IF requested = 0 THEN 800 ELSE requested,
               radius_suggest(size, age, best))

-----------------------------------------------------------------------------
(* Inputs *)

Sizes == {"small", "medium", "large", "other"}
\* the sizes the sidebar of app.py offers
SelectableSizes == {"small", "medium", "large"}
\* which of a forecast's two dates _build_rows is called on
Days == {0, 1}
Ages == {0, 7, 8, 9}

\* window extraction: sequences of up to MaxLen contiguous hourly samples
WinAges == {7, 9}
WinTemps == {2000, 2010, 2401}
WinWinds == {90, 100}
WinStarts == {7, 15, 22}

\* classification of one sample
SafeTemps == {n * 100 + e : n \in 19..29, e \in {-1, 0, 1}} \cup {2010}
SafeWinds == {0, 99, 100, 101, 500}
SafeHours == {0, 8, 9, 12, 16, 17, 23}

\* scoring of one sample
ScoreTemps == {-4000, 0, 1990, 2000, 2010, 2350, 2383, 2400, 2401, 2417,
               2450, 3000, 6000}
ScoreWinds == {0, 30, 49, 50, 100, 600, 601, 2000}
ScoreRhs == {0, 50, 75, 76, 77, 78, 80, 100, 300}
ScoreHours == {8, 9, 12, 16, 17}

Sample(time, temp, rh, wind) ==
    [time |-> time, temp |-> temp, rh |-> rh, wind |-> wind]

SeqsUpTo(S, n) == UNION {[1..m -> S] : m \in 0..n}

\* the external-scorer path: how many hourly records the forecast holds
WxCounts == {0, 24}
WxHourly(n) == [i \in 1..n |-> Sample(TimeAt(Today * 24, i - 1), 2200, 60, 200)]

\* the strings an LLM answer may give as a window's start or end
TextTs == [kind |-> "text", d |-> 0, h |-> 0, sep |-> " "]
ShortTs == [kind |-> "short", d |-> 0, h |-> 0, sep |-> " "]
TsStrings == {Iso(Today, 6, " "), Iso(Today, 8, " "), Iso(Today, 6, "T"),
              Iso(Today, 24, " "), TextTs, ShortTs}

\* scores of an LLM answer: 80, 150, and a value int() rejects ("high", null)
JsonScores == {[num |-> TRUE, val |-> 80], [num |-> TRUE, val |-> 150],
               [num |-> FALSE, val |-> 0]}
WinEntries == [start : TsStrings, end : TsStrings, score : JsonScores]
FailureKinds == {"timeout", "nojson", "badjson"}
TwResponses ==
    {[kind |-> kd, body |-> <<>>] : kd \in FailureKinds}
    \cup {[kind |-> "json", body |-> b] : b \in SeqsUpTo(WinEntries, MaxWin)}

\* lengths of the merged POI list, and the poi_index values of an LLM answer:
\* integers, and a value that is no int ("1", 1.0, null)
PoiCounts == {0, 1, 2, 59, 60, 61, 80}
JsonIndexes == {[int |-> TRUE, val |-> v] : v \in {-1, 0, 1, 59, 60, 79, 80}}
               \cup {[int |-> FALSE, val |-> 1]}
SelEntries == [poi_index : JsonIndexes]
SelResponses ==
    {[kind |-> kd, body |-> <<>>] : kd \in FailureKinds}
    \cup {[kind |-> "json", body |-> b] : b \in SeqsUpTo(SelEntries, MaxSel)}
MaxRoutesInputs == {-2, 0, 1, 2, 3, 5, 9}

\* candidate lists: what get_pois and _fetch_pet_friendly may answer
S_pet_cafe == <<"p", "e", "t", "_", "c", "a", "f", "e">>
S_pet_parka == <<"p", "e", "t", "_", "p", "a", "r", "k", "a">>
S_pet_footwear ==
    <<"p", "e", "t", "_", "f", "o", "o", "t", "w", "e", "a", "r">>
S_footpath == <<"f", "o", "o", "t", "p", "a", "t", "h">>
S_garden == <<"g", "a", "r", "d", "e", "n">>
S_par == <<"p", "a", "r">>

Poi(name, lat, lon, kind) ==
    [name |-> name, lat |-> Coord(lat), lon |-> Coord(lon), kind |-> kind]
PetPoi(name, lat, lon, kind, tags) ==
    [name |-> name, kind |-> kind, lat |-> Coord(lat), lon |-> Coord(lon),
     tags |-> tags, pet_friendly |-> TRUE]

PrimaryPois ==
    {Poi("A", 35000001, 139000001, S_park),
     Poi("A", 35000004, 139000001, S_footway),
     Poi("A", 35000011, 139000001, S_park),
     Poi("B", 35000001, 139000001, S_path),
     Poi("", 35000031, 139000001, <<>>),
     [name |-> "C", lat |-> NoCoord, lon |-> Coord(139000001), kind |-> S_park]}
PetPois ==
    {PetPoi("A", 35000001, 139000001, S_pet_cafe, [dogs |-> "yes"]),
     PetPoi("D", 35000021, 139000001, S_pet_cafe,
            [dogs |-> "leashed", water |-> "yes"]),
     PetPoi("E", 35000021, 139000001, S_pet_parka, [dogs |-> "yes"]),
     PetPoi(DefaultName, 35000031, 139000001, S_pet_cafe, [pets |-> "yes"]),
     PetPoi("F", 35000041, 139000001, S_pet_footwear, [pets |-> "permissive"])}
SmallMergeInputs ==
    SeqsUpTo(PrimaryPois, MaxPrimary) \X SeqsUpTo(PetPois, MaxPet)

\* one candidate, over the fields the classification reads
ClassifyKinds ==
    {<<>>, S_park, S_leisure_park, S_footway, S_path, S_footpath, S_pet_cafe,
     S_pet_parka, S_pet_footwear, S_garden, S_par, S_other}
ClassifyTypes == {<<>>, S_park, S_footway}
ClassifyTags ==
    {<<>>, [dogs |-> "yes"], [dogs |-> "Yes"], [dogs |-> "no"],
     [pets |-> "permissive"], [dog |-> "leashed"], [pet |-> "LEASHED"],
     [water |-> "yes"], [access |-> "yes"], [dogs |-> "no", pet |-> "yes"]}
ClassifyPois ==
    {[name |-> "G", lat |-> Coord(35000001), lon |-> Coord(139000001),
      kind |-> kd, type |-> ty, tags |-> tg, pet_friendly |-> fl] :
       kd \in ClassifyKinds, ty \in ClassifyTypes, tg \in ClassifyTags,
       fl \in BOOLEAN}
ClassifyInputs == {<<(<<p>>), (<<>>)>> : p \in ClassifyPois}

\* long lists: n1 places, then n2 pet-friendly places of which the first
\* n1 - o repeat places of the first list
GenPoi(i) == Poi("P", 35000001 + 10 * i, 139000001, S_footway)
GenPetPoi(i) ==
    PetPoi("P", 35000001 + 10 * i, 139000001, S_pet_cafe, [dogs |-> "yes"])
LongMergeInputs ==
    {<<[i \in 1..n1 |-> GenPoi(i)], [j \in 1..n2 |-> GenPetPoi(o + j)]>> :
       n1 \in {0, 20}, n2 \in {0, 60, 61, 100}, o \in {0, 20}}

MergeInputs == SmallMergeInputs \cup ClassifyInputs \cup LongMergeInputs

\* the route stages
Geometry == <<"p1", "p2">>
RouteResults ==
    {RouteRaises, NoRoute, Route(300, Geometry), Route(1500, Geometry),
     Route(300, <<>>)}
RoutePois ==
    MergePois(<<Poi("A", 35000001, 139000001, S_park),
                Poi("B", 35000011, 139000001, S_footway)>>,
              <<PetPoi("D", 35000021, 139000001, S_pet_cafe, [dogs |-> "yes"])>>)
RoutePicks(top_k) ==
    {sels \in SeqsUpTo({[poi_index |-> i] : i \in 0..(Len(RoutePois) - 1)},
                       MaxPicks) : Len(sels) <= top_k}
Orders(n) == {f \in [1..n -> 1..n] : \A i, j \in 1..n : i # j => f[i] # f[j]}
NumScore(v) == [num |-> TRUE, val |-> v]
ScoreBodies(n) ==
    SeqsUpTo({NumScore(50), NumScore(80)}, n)
    \cup {[i \in 1..(n + 1) |-> NumScore(80)],
          <<NumScore(150), NumScore(-5)>>,
          <<[num |-> FALSE, val |-> 0]>>}
ScoreResponses(n) ==
    {[kind |-> kd, body |-> <<>>] : kd \in FailureKinds}
    \cup {[kind |-> "json", body |-> b] : b \in ScoreBodies(n)}
DetPois ==
    {Poi("A", 35000001, 139000001, S_park),
     Poi("B", 35000011, 139000001, S_footway),
     Poi("C", 35000021, 139000001, S_path),
     Poi("E", 35000031, 139000001, S_footway),
     Poi("F", 35000041, 139000001, S_park)}
\* the forecast of the deterministic path: two safe hours, then a hot one
DetForecast ==
    << Sample(TimeAt(7, 0), 2000, 60, 100), Sample(TimeAt(7, 1), 2000, 60, 100),
       Sample(TimeAt(7, 2), 3500, 60, 100) >>
\* ss.routes when the button is pressed: none on the first press, the routes
\* of an earlier press afterwards
PriorRoutes ==
    {<<>>,
     DetRoutes(<<Poi("A", 35000001, 139000001, S_park),
                 Poi("B", 35000011, 139000001, S_footway)>>,
               <<Route(300, Geometry), Route(300, Geometry)>>).out}
\* get_pois answers with distinct places
DetPoiLists ==
    {s \in SeqsUpTo(DetPois, MaxDetPois) :
        \A i, j \in 1..Len(s) : i # j => s[i] # s[j]}

\* one hourly record with a null reading
NullSample(time, temp, rh, wind, nulls) ==
    [time |-> time, temp |-> temp, rh |-> rh, wind |-> wind, nulls |-> nulls]
NullFields == {{"temp"}, {"wind"}}

\* _build_rows: readings at the threshold, with strong or weak wind and humid
\* air, as [temp, wind, rh]
ComfortReadings ==
    {<<2700, 700, 100>>, <<2300, 700, 100>>, <<2700, 100, 60>>,
     <<2701, 100, 60>>, <<2300, 30, 100>>, <<2000, 100, 76>>}

\* the radius stage: requested radii, morning temperatures, and a forecast of
\* 24 hours that is 5 degrees warmer from noon on
RadiusInputs == {0, 100, 300, 800, 2000, 5000}
RadiusTemps ==
    {-500, 1700, 2000, 2190, 2200, 2370, 2400, 2430, 2490, 2550, 2600, 2700,
     2750, 2800, 3000, 3300, 3400, 4500}
RadiusHourly(t) ==
    [i \in 1..24 |->
        Sample(TimeAt(Today * 24, i - 1), IF i <= 12 THEN t ELSE t + 500, 60, 200)]
NoTempHourly ==
    [i \in 1..24 |-> NullSample(TimeAt(Today * 24, i - 1), 0, 60, 200, {"temp"})]

\* score_route: kinds and distances
RouteKinds ==
    {<<>>, S_park, S_footway, S_path, S_other, S_leisure_park, S_pet_friendly}
RouteDistances ==
    {0, 1, 10, 18, 19, 37, 38, 75, 100, 300, 749, 750, 751, 1000, 1462, 1463,
     1499, 1500, 1501, 3000}

-----------------------------------------------------------------------------
(* Calls *)

PlanIdle ==
    /\ radius_m = 800
    /\ pois_raw = <<>>
    /\ extra_pet = <<>>
    /\ route_results = <<>>
    /\ chosen_routes = <<>>
    /\ score_response = NoResponse
    /\ final_routes = <<>>
    /\ routes = <<>>

AgentIdle ==
    /\ PlanIdle
    /\ radius_m_eff = 0
    /\ max_routes = 3
    /\ tw_response = NoResponse
    /\ time_windows = <<>>
    /\ rows = <<>>
    /\ k = 3
    /\ pois = <<>>
    /\ sel_response = NoResponse
    /\ sent_pois = <<>>
    /\ picks = <<>>

InitWindows ==
    /\ pc = "rtw_call"
    /\ dog_size \in Sizes
    /\ age_years \in WinAges
    /\ \E n \in 0..MaxLen, t0 \in WinStarts :
         \E f \in [1..n -> WinTemps \X WinWinds] :
            hourly = [i \in 1..n |->
                        Sample(TimeAt(t0, i - 1), f[i][1], 60, f[i][2])]
    /\ windows = <<>>
    /\ score = 0
    /\ AgentIdle

InitSafe ==
    /\ pc = "rtw_call"
    /\ dog_size \in Sizes
    /\ age_years \in Ages
    /\ \E t \in SafeTemps, w \in SafeWinds, hh \in SafeHours :
         hourly = <<Sample(TimeAt(hh, 0), t, 60, w)>>
    /\ windows = <<>>
    /\ score = 0
    /\ AgentIdle

InitScore ==
    /\ pc = "score_call"
    /\ dog_size \in Sizes
    /\ age_years \in {7, 8}
    /\ \E t \in ScoreTemps, w \in ScoreWinds, r \in ScoreRhs, hh \in ScoreHours :
         hourly = <<Sample(TimeAt(hh, 0), t, r, w)>>
    /\ windows = <<>>
    /\ score = 0
    /\ AgentIdle

\* windows = recommend_time_windows(wx, size=dog_size, age=age_years, ...);
\* app.py catches what it raises and sets ss.windows = []
Recommend ==
    /\ pc = "rtw_call"
    /\ IF rtw_raises(hourly, dog_size, age_years)
       THEN windows' = <<>> /\ pc' = "rtw_raised"
       ELSE /\ windows' = recommend_time_windows(hourly, dog_size, age_years)
            /\ pc' = "rtw_done"
    /\ UNCHANGED <<dog_size, age_years, hourly, score, agentVars, planVars>>

\* _hourly_score(h) for the one sample
HourlyScore ==
    /\ pc = "score_call"
    /\ score' = hourly_score(hourly[1], Threshold(dog_size, age_years))
    /\ pc' = "score_done"
    /\ UNCHANGED <<dog_size, age_years, hourly, windows, agentVars, planVars>>

\* _tool_recommend is entered with the payload's defaults for the profile
InitAgent ==
    /\ pc = "agent_start"
    /\ dog_size = "medium"
    /\ age_years = 5
    /\ hourly = <<>>
    /\ windows = <<>>
    /\ score = 0
    /\ AgentIdle

\* hourly_raw = get_hourly_weather(lat, lon) or []: the request raises, or
\* answers with the first n hourly records of today
AgentFetchWeather ==
    /\ pc = "agent_start"
    /\ \/ /\ pc' = "agent_raised"
          /\ UNCHANGED hourly
       \/ /\ \E n \in WxCounts : hourly' = WxHourly(n)
          /\ pc' = "agent_tw"
    /\ UNCHANGED <<dog_size, age_years, coreVars, agentVars, planVars>>

\* the time-window request, its validation, the fallback and the rows; the
\* answer is any member of TwResponses, taken by kind and length
AgentTimeWindows ==
    /\ pc = "agent_tw"
    /\ \E kd \in FailureKinds \cup {"json"} :
       \E n \in (IF kd = "json" THEN 0..MaxWin ELSE {0}) :
       \E b \in [1..n -> WinEntries] :
         LET resp == [kind |-> kd, body |-> b]
             r == TimeWindowStage(resp, hourly)
         IN  /\ tw_response' = resp
             /\ time_windows' = r.time_windows
             /\ rows' = r.rows
             /\ pc' = IF r.raised THEN "agent_raised" ELSE "agent_radius"
    /\ UNCHANGED <<dog_size, age_years, hourly, coreVars, k, pois,
                   sel_response, sent_pois, picks, planVars>>

\* k = _to_int(payload.get("max_routes"), 3) or 3; k = max(1, min(5, k))
RoutesK(requested) ==
    LET v == IF requested = 0 THEN 3 ELSE requested
    IN  IF v < 1 THEN 1 ELSE Min(5, v)

\* _tool_recommend with the candidates merged, before the destination request
InitSelect ==
    /\ pc = "agent_select"
    /\ dog_size = "medium"
    /\ age_years = 5
    /\ hourly = <<>>
    /\ windows = <<>>
    /\ score = 0
    /\ tw_response = NoResponse
    /\ time_windows = FallbackWindows
    /\ rows = <<>>
    /\ max_routes \in MaxRoutesInputs
    /\ k = RoutesK(max_routes)
    /\ \E n \in PoiCounts : pois = [i \in 1..n |-> [id |-> i]]
    /\ sel_response = NoResponse
    /\ sent_pois = <<>>
    /\ picks = <<>>
    /\ PlanIdle
    /\ radius_m_eff = radius_stage(radius_m, dog_size, age_years, NoTemp)

\* picks = _gpt_select_routes(llm, dog, pois, hot_hint=hot_day, top_k=k)
AgentSelectRoutes ==
    /\ pc = "agent_select"
    /\ \E resp \in SelResponses :
         LET r == gpt_select_routes(resp, pois, k)
         IN  /\ sel_response' = resp
             /\ sent_pois' = Take(pois, SelectorPoiLimit)
             /\ picks' = r.out
             /\ pc' = IF r.raised THEN "agent_raised" ELSE "agent_routes"
    /\ UNCHANGED <<dog_size, age_years, hourly, coreVars, tw_response,
                   time_windows, rows, k, pois, planVars>>

\* _tool_recommend with the time windows settled, before the places are fetched
InitMerge ==
    /\ pc = "agent_pois"
    /\ dog_size = "medium"
    /\ age_years = 5
    /\ hourly = <<>>
    /\ windows = <<>>
    /\ score = 0
    /\ tw_response = NoResponse
    /\ time_windows = FallbackWindows
    /\ rows = <<>>
    /\ max_routes = 3
    /\ k = 3
    /\ pois = <<>>
    /\ sel_response = NoResponse
    /\ sent_pois = <<>>
    /\ picks = <<>>
    /\ PlanIdle
    /\ radius_m_eff = radius_stage(radius_m, dog_size, age_years, NoTemp)

\* pois_raw = get_pois(...), which may raise; extra_pet = _fetch_pet_friendly(...);
\* then the merge
AgentMergePois ==
    /\ pc = "agent_pois"
    /\ \/ /\ pc' = "agent_raised"
          /\ UNCHANGED <<pois_raw, extra_pet, pois>>
       \/ /\ \E inp \in MergeInputs :
               /\ pois_raw' = inp[1]
               /\ extra_pet' = inp[2]
               /\ pois' = MergePois(inp[1], inp[2])
          /\ pc' = "agent_select"
    /\ UNCHANGED <<dog_size, age_years, hourly, coreVars, tw_response,
                   time_windows, rows, k, sel_response, sent_pois, picks,
                   max_routes, routeVars>>
    /\ UNCHANGED radiusVars

\* _tool_recommend with the destinations picked, before the routes are fetched
InitRoutes ==
    /\ pc = "agent_routes"
    /\ dog_size = "medium"
    /\ age_years = 5
    /\ hourly = <<>>
    /\ windows = <<>>
    /\ score = 0
    /\ tw_response = NoResponse
    /\ time_windows = FallbackWindows
    /\ rows = <<>>
    /\ max_routes \in MaxRoutesInputs
    /\ k = RoutesK(max_routes)
    /\ pois = RoutePois
    /\ sel_response = NoResponse
    /\ sent_pois = <<>>
    /\ picks \in RoutePicks(k)
    /\ PlanIdle
    /\ radius_m_eff = radius_stage(radius_m, dog_size, age_years, NoTemp)

\* the ThreadPoolExecutor block: one route_walking job for each pick
AgentFetchRoutes ==
    /\ pc = "agent_routes"
    /\ \E results \in [1..Len(picks) -> RouteResults],
          order \in Orders(Len(picks)) :
         LET r == FetchRoutes(pois, picks, results, order)
         IN  /\ route_results' = results
             /\ chosen_routes' = r.out
             /\ pc' = IF r.raised THEN "agent_raised" ELSE "agent_score"
    /\ UNCHANGED <<dog_size, age_years, hourly, coreVars, agentVars,
                   max_routes, pois_raw, extra_pet, score_response,
                   final_routes, routes>>
    /\ UNCHANGED radiusVars

\* scores = _gpt_score_routes(...); the zip, the sort and final_routes[:k]
AgentScoreRoutes ==
    /\ pc = "agent_score"
    /\ \E resp \in ScoreResponses(Len(chosen_routes)) :
         LET sc == gpt_score_routes(resp, chosen_routes)
             zipped == ZipScores(chosen_routes, sc.out)
         IN  /\ score_response' = resp
             /\ final_routes' = IF sc.raised THEN <<>> ELSE zipped
             /\ routes' = IF sc.raised THEN <<>> ELSE RankRoutes(zipped, k)
             /\ pc' = IF sc.raised THEN "agent_raised" ELSE "agent_done"
    /\ UNCHANGED <<dog_size, age_years, hourly, coreVars, agentVars,
                   max_routes, pois_raw, extra_pet, route_results,
                   chosen_routes>>
    /\ UNCHANGED radiusVars

\* app.py with the places fetched, before the routes are fetched
InitDet ==
    /\ pc = "det_routes"
    /\ dog_size = "medium"
    /\ age_years = 5
    /\ hourly = DetForecast
    /\ windows = recommend_time_windows(hourly, dog_size, age_years)
    /\ score = 0
    /\ tw_response = NoResponse
    /\ time_windows = <<>>
    /\ rows = <<>>
    /\ max_routes = 3
    /\ k = 3
    /\ pois \in DetPoiLists
    /\ sel_response = NoResponse
    /\ sent_pois = <<>>
    /\ picks = <<>>
    /\ radius_m = 800
    /\ pois_raw = <<>>
    /\ extra_pet = <<>>
    /\ route_results = <<>>
    /\ chosen_routes = <<>>
    /\ score_response = NoResponse
    /\ final_routes = <<>>
    /\ routes \in PriorRoutes
    /\ radius_m_eff = 0

\* app.py: the route loop, the sort and the cut, inside try/except.  The
\* except block calls st.error and then sets ss.wx = None, ss.windows = []
\* and ss.routes = [].  With a rerun or stop request of the session pending,
\* st.error raises the script runner's control exception, which
\* "except Exception" does not catch: the run ends before the three resets.
DetRouteStage ==
    /\ pc = "det_routes"
    /\ \E results \in [1..Len(pois) -> RouteResults], pending \in BOOLEAN :
         LET r == DetRoutes(pois, results)
             interrupted == r.raised /\ pending
         IN  /\ route_results' = results
             /\ routes' = IF interrupted THEN routes ELSE r.out
             /\ hourly' = IF r.raised /\ ~pending THEN <<>> ELSE hourly
             /\ windows' = IF r.raised /\ ~pending THEN <<>> ELSE windows
             /\ pc' = IF interrupted THEN "det_interrupted"
                      ELSE IF r.raised THEN "det_failed" ELSE "det_done"
    /\ UNCHANGED <<dog_size, age_years, score, agentVars,
                   max_routes, pois_raw, extra_pet, chosen_routes,
                   score_response, final_routes>>
    /\ UNCHANGED radiusVars

\* recommend_time_windows on a forecast in which one record has a null reading
InitNull ==
    /\ pc = "rtw_call"
    /\ dog_size = "medium"
    /\ age_years = 7
    /\ \E n \in 1..MaxLen, t0 \in WinStarts :
         \E f \in [1..n -> WinTemps \X WinWinds], j \in 1..n, nf \in NullFields :
            hourly = [i \in 1..n |->
                        IF i = j
                        THEN NullSample(TimeAt(t0, i - 1),
                                        IF "temp" \in nf THEN 0 ELSE f[i][1], 60,
                                        IF "wind" \in nf THEN 0 ELSE f[i][2], nf)
                        ELSE Sample(TimeAt(t0, i - 1), f[i][1], 60, f[i][2])]
    /\ windows = <<>>
    /\ score = 0
    /\ AgentIdle

\* app.py: _build_rows on the records of one date of a forecast that is not
\* empty, in which at most one record has a null humidity
InitRows ==
    /\ pc = "rows_call"
    /\ dog_size \in SelectableSizes
    /\ age_years \in WinAges
    /\ \E n \in 1..MaxLen, t0 \in WinStarts, day \in Days :
         \E f \in [1..n -> WinTemps \X WinWinds], nr \in 0..n :
            hourly = OnDate([i \in 1..n |->
                               IF i = nr
                               THEN NullSample(TimeAt(t0, i - 1), f[i][1], 0,
                                               f[i][2], {"rh"})
                               ELSE Sample(TimeAt(t0, i - 1), f[i][1], 60,
                                           f[i][2])],
                            day)
    /\ windows = <<>>
    /\ score = 0
    /\ AgentIdle

\* app.py: _build_rows on the records of one date of a forecast whose
\* readings are at the limits of the safe range
InitComfort ==
    /\ pc = "rows_call"
    /\ dog_size = "medium"
    /\ age_years \in WinAges
    /\ \E n \in 1..MaxLen, t0 \in WinStarts, day \in Days :
         \E f \in [1..n -> ComfortReadings] :
            hourly = OnDate([i \in 1..n |->
                               Sample(TimeAt(t0, i - 1), f[i][1], f[i][3],
                                      f[i][2])],
                            day)
    /\ windows = <<>>
    /\ score = 0
    /\ AgentIdle

\* rows = _build_rows(hourly)
BuildRowsCall ==
    /\ pc = "rows_call"
    /\ LET r == build_rows(hourly, dog_size, age_years)
       IN  /\ rows' = r.out
           /\ pc' = IF r.raised THEN "rows_raised" ELSE "rows_done"
    /\ UNCHANGED <<dog_size, age_years, hourly, coreVars, tw_response,
                   time_windows, k, pois, sel_response, sent_pois, picks,
                   planVars>>

\* score_route on one route
InitRouteScore ==
    /\ pc = "route_score_call"
    /\ dog_size = "medium"
    /\ age_years = 5
    /\ hourly = <<>>
    /\ windows = <<>>
    /\ score = 0
    /\ tw_response = NoResponse
    /\ time_windows = <<>>
    /\ rows = <<>>
    /\ max_routes = 3
    /\ k = 3
    /\ pois = <<>>
    /\ sel_response = NoResponse
    /\ sent_pois = <<>>
    /\ picks = <<>>
    /\ pois_raw = <<>>
    /\ extra_pet = <<>>
    /\ route_results = <<>>
    /\ \E kd \in RouteKinds, d \in RouteDistances :
         chosen_routes = <<[poi |-> [kind |-> kd], distance_m |-> d]>>
    /\ score_response = NoResponse
    /\ final_routes = <<>>
    /\ routes = <<>>
    /\ radius_m = 800
    /\ radius_m_eff = 0

\* rscore = score_route(route_dict, [])
RouteScore ==
    /\ pc = "route_score_call"
    /\ score' = score_route(chosen_routes[1])
    /\ pc' = "route_score_done"
    /\ UNCHANGED <<dog_size, age_years, hourly, windows, agentVars, planVars>>

\* _tool_recommend with the candidates merged (or none found), before the
\* destination request; the rest of the function follows
InitPick ==
    /\ pc = "agent_select"
    /\ dog_size = "medium"
    /\ age_years = 5
    /\ hourly = <<>>
    /\ windows = <<>>
    /\ score = 0
    /\ tw_response = NoResponse
    /\ time_windows = FallbackWindows
    /\ rows = <<>>
    /\ max_routes \in MaxRoutesInputs
    /\ k = RoutesK(max_routes)
    /\ pois \in {<<>>, RoutePois}
    /\ sel_response = NoResponse
    /\ sent_pois = <<>>
    /\ picks = <<>>
    /\ PlanIdle
    /\ radius_m_eff = radius_stage(radius_m, dog_size, age_years, NoTemp)

\* _tool_recommend with the rows of the fallback windows sorted, before the
\* radius is computed
InitRadius ==
    /\ pc = "agent_radius"
    /\ dog_size \in Sizes
    /\ age_years \in {7, 8}
    /\ hourly \in {<<>>, NoTempHourly} \cup {RadiusHourly(t) : t \in RadiusTemps}
    /\ windows = <<>>
    /\ score = 0
    /\ tw_response = [kind |-> "nojson", body |-> <<>>]
    /\ time_windows = FallbackWindows
    /\ rows = TimeWindowStage(tw_response, hourly).rows
    /\ max_routes = 3
    /\ k = 3
    /\ pois = <<>>
    /\ sel_response = NoResponse
    /\ sent_pois = <<>>
    /\ picks = <<>>
    /\ radius_m \in RadiusInputs
    /\ radius_m_eff = 0
    /\ pois_raw = <<>>
    /\ extra_pet = <<>>
    /\ route_results = <<>>
    /\ chosen_routes = <<>>
    /\ score_response = NoResponse
    /\ final_routes = <<>>
    /\ routes = <<>>

\* the radius of the POI queries, from the best row
AgentRadius ==
    /\ pc = "agent_radius"
    /\ radius_m_eff' = radius_stage(radius_m, dog_size, age_years,
                                    BestAvgTemp(rows, time_windows, hourly))
    /\ pc' = "agent_pois"
    /\ UNCHANGED <<dog_size, age_years, hourly, coreVars, agentVars,
                   max_routes, radius_m, pois_raw, extra_pet, routeVars>>

SpecWindows == InitWindows /\ [][Recommend]_vars
SpecSafe == InitSafe /\ [][Recommend]_vars
SpecScore == InitScore /\ [][HourlyScore]_vars
SpecAgent == InitAgent /\ [][AgentFetchWeather \/ AgentTimeWindows]_vars
SpecSelect == InitSelect /\ [][AgentSelectRoutes]_vars
SpecMerge == InitMerge /\ [][AgentMergePois]_vars
SpecRoutes == InitRoutes /\ [][AgentFetchRoutes \/ AgentScoreRoutes]_vars
SpecDet == InitDet /\ [][DetRouteStage]_vars
SpecNull == InitNull /\ [][Recommend]_vars
SpecRows == InitRows /\ [][BuildRowsCall]_vars
SpecPresented ==
    /\ InitRows \/ InitAgent
    /\ [][BuildRowsCall \/ AgentFetchWeather \/ AgentTimeWindows]_vars
SpecScores ==
    /\ InitAgent \/ InitRoutes \/ InitDet \/ InitRouteScore
    /\ [][AgentFetchWeather \/ AgentTimeWindows \/ AgentFetchRoutes
          \/ AgentScoreRoutes \/ DetRouteStage \/ RouteScore]_vars

SpecPick ==
    /\ InitPick
    /\ [][AgentSelectRoutes \/ AgentFetchRoutes \/ AgentScoreRoutes]_vars

SpecComfort == InitComfort /\ [][BuildRowsCall]_vars

SpecRadius == InitRadius /\ [][AgentRadius]_vars

SpecRouteScore == InitRouteScore /\ [][RouteScore]_vars
SpecRanked ==
    /\ InitRoutes \/ InitDet
    /\ [][AgentFetchRoutes \/ AgentScoreRoutes \/ DetRouteStage]_vars

Init ==
    InitWindows \/ InitSafe \/ InitScore \/ InitAgent \/ InitSelect \/ InitMerge
    \/ InitPick \/ InitComfort \/ InitRadius \/ InitRoutes \/ InitDet \/ InitNull \/ InitRows \/ InitRouteScore
Next ==
    \/ Recommend
    \/ HourlyScore
    \/ AgentFetchWeather
    \/ AgentTimeWindows
    \/ AgentRadius
    \/ AgentSelectRoutes
    \/ AgentMergePois
    \/ AgentFetchRoutes
    \/ AgentScoreRoutes
    \/ DetRouteStage
    \/ BuildRowsCall
    \/ RouteScore
Spec == Init /\ [][Next]_vars

-----------------------------------------------------------------------------
(* Properties of recommend_time_windows *)

\* sdt <= _as_dt(h["time"]) < edt: the sample's timestamp lies in [start, end)
InWindow(h, w) ==
    as_dt(w.start) <= as_dt(h.time) /\ as_dt(h.time) < as_dt(w.end)

\* C1: in the returned windows, (a) no sample whose timestamp lies in a
\* window's [start, end) is non-safe, and (b) no two consecutive samples that
\* are both safe lie in two different windows.
C1_WindowsSafeAndUnsplit ==
    pc = "rtw_done" =>
        LET thr == Threshold(dog_size, age_years)
        IN  /\ \A wi \in 1..Len(windows), i \in 1..Len(hourly) :
                 InWindow(hourly[i], windows[wi]) => IsSafe(hourly[i], thr)
            /\ \A i \in 1..(Len(hourly) - 1) :
                 (IsSafe(hourly[i], thr) /\ IsSafe(hourly[i + 1], thr)) =>
                    \A k1, k2 \in 1..Len(windows) :
                        k1 # k2 => ~(/\ InWindow(hourly[i], windows[k1])
                                     /\ InWindow(hourly[i + 1], windows[k2]))

\* two windows were returned, and two consecutive safe samples lie in one of them
C1_Witness ==
    /\ pc = "rtw_done"
    /\ Len(windows) >= 2
    /\ \E i \in 1..(Len(hourly) - 1), wi \in 1..Len(windows) :
         /\ IsSafe(hourly[i], Threshold(dog_size, age_years))
         /\ IsSafe(hourly[i + 1], Threshold(dog_size, age_years))
         /\ InWindow(hourly[i], windows[wi])
         /\ InWindow(hourly[i + 1], windows[wi])

\* C2: every returned window has start < end, for every sequence with
\* strictly increasing timestamps (also when only the last sample is safe).
C2_StartBeforeEnd ==
    pc = "rtw_done" =>
        \A wi \in 1..Len(windows) :
            as_dt(windows[wi].start) < as_dt(windows[wi].end)

\* C3: the returned windows are in chronological order and pairwise
\* non-overlapping: an earlier window ends no later than a later one starts.
C3_WindowsOrderedDisjoint ==
    pc = "rtw_done" =>
        \A k1, k2 \in 1..Len(windows) :
            k1 < k2 => as_dt(windows[k1].end) <= as_dt(windows[k2].start)

\* two windows were returned, each holding at least one sample
C3_Witness ==
    /\ pc = "rtw_done"
    /\ Len(windows) >= 2
    /\ \A wi \in 1..Len(windows) :
         \E i \in 1..Len(hourly) : InWindow(hourly[i], windows[wi])

\* C4: a single sample opens a window exactly when (temperature + 4.0 if its
\* hour is in 9..16, else temperature) <= threshold and wind >= 1.0, the
\* threshold being 25/27/28 for small/medium/large, 26 otherwise, minus 1 from
\* age 8; small, age 9, 12:00: 20.0 is safe with wind >= 1.0, 20.1 never is.
C4_SafeIff ==
    (pc = "rtw_done" /\ Len(hourly) = 1) =>
        LET h == hourly[1]
            apparent == IF h.time.h \in 9..16 THEN h.temp + 400 ELSE h.temp
            base == CASE dog_size = "small" -> 2500
                      [] dog_size = "medium" -> 2700
                      [] dog_size = "large" -> 2800
                      [] OTHER -> 2600
            thr == IF age_years >= 8 THEN base - 100 ELSE base
            classified == (windows # <<>>)
        IN  /\ classified <=> (apparent <= thr /\ h.wind >= 100)
            /\ (apparent = thr /\ h.wind >= 100) => classified
            /\ (apparent = thr + 1) => ~classified
            /\ (dog_size = "small" /\ age_years = 9 /\ h.time.h = 12) =>
                 /\ (h.temp = 2000 /\ h.wind >= 100) => classified
                 /\ (h.temp = 2010) => ~classified

\* small dog aged 9, 12:00, 20.0 degrees, wind 1.0: classified safe
C4_Witness ==
    /\ pc = "rtw_done"
    /\ Len(hourly) = 1
    /\ dog_size = "small" /\ age_years = 9
    /\ hourly[1].time.h = 12 /\ hourly[1].temp = 2000 /\ hourly[1].wind = 100
    /\ windows # <<>>

-----------------------------------------------------------------------------
(* Properties of _hourly_score *)

ScoreThreshold == Threshold(dog_size, age_years)

ScoreApparent ==
    IF hourly[1].time.h \in 9..16 THEN hourly[1].temp + 400 ELSE hourly[1].temp

WindPenalty ==
    IF hourly[1].wind < 50 THEN 5 ELSE IF hourly[1].wind > 600 THEN 3 ELSE 0

\* C5 as stated: the score is clamp(50 + round((threshold - apparent) * 6)
\* - windPenalty - humidityPenalty), humidityPenalty = round((rh - 75) / 2)
\* when rh > 75.
C5_ScoreWithRound ==
    pc = "score_done" =>
        score = Clamp100(50 + RoundDiv((ScoreThreshold - ScoreApparent) * 6, 100)
                         - WindPenalty
                         - (IF hourly[1].rh > 75
                            THEN RoundDiv(hourly[1].rh - 75, 2) ELSE 0))

\* C5 amended: the score is clamp(50 + trunc((threshold - apparent) * 6)
\* - windPenalty - humidityPenalty), humidityPenalty = trunc((rh - 75) / 2)
\* when rh > 75, where trunc drops the fraction (rounds toward zero); temp 20,
\* wind 0.3, rh 80, threshold 24.0 gives 67.
C5_ScoreWithTrunc ==
    pc = "score_done" =>
        /\ score = Clamp100(50 + TruncDiv((ScoreThreshold - ScoreApparent) * 6, 100)
                            - WindPenalty
                            - (IF hourly[1].rh > 75
                               THEN TruncDiv(hourly[1].rh - 75, 2) ELSE 0))
        /\ (/\ ScoreApparent = 2000 /\ ScoreThreshold = 2400
            /\ hourly[1].wind = 30 /\ hourly[1].rh = 80) => score = 67

\* the golden case: temp 20, wind 0.3, rh 80, threshold 24.0, score 67
C5_Witness ==
    /\ pc = "score_done"
    /\ ScoreApparent = 2000 /\ ScoreThreshold = 2400
    /\ hourly[1].wind = 30 /\ hourly[1].rh = 80
    /\ score = 67

\* C6: the hourly comfort score is an integer in [0, 100].
C6_ScoreInRange ==
    pc = "score_done" => score \in 0..100

\* a sample far above the threshold, in still and humid air: the score is 0
C6_Witness ==
    /\ pc = "score_done"
    /\ hourly[1].temp = 6000 /\ hourly[1].wind = 0 /\ hourly[1].rh = 300
    /\ score = 0

-----------------------------------------------------------------------------
(* Properties of the external-scorer path *)

\* the time-window request has been answered and _tool_recommend went on
AfterTimeWindows ==
    pc \in {"agent_radius", "agent_raised"} /\ tw_response # NoResponse

\* C7: when the scorer call completes and validation leaves no usable window,
\* the window list returned to the caller is exactly today 06:00-08:00 with
\* score 75 and today 18:00-20:00 with score 70, whatever hourly samples were
\* fetched (none included).
C7_FallbackTwoWindows ==
    (/\ AfterTimeWindows
     /\ ~gpt_select_timewindows(tw_response, TwTopK).raised
     /\ gpt_select_timewindows(tw_response, TwTopK).out = <<>>) =>
        /\ pc = "agent_radius"
        /\ time_windows = FallbackWindows
        /\ rows = << [from_h |-> 6, to_h |-> 8, score |-> 75],
                     [from_h |-> 18, to_h |-> 20, score |-> 70] >>

\* the scorer call failed: no answer, an answer that is no parseable JSON, or
\* a window entry whose score is not numeric
ScorerFailed ==
    \/ tw_response.kind \in FailureKinds
    \/ \E i \in 1..Len(tw_response.body) : ~tw_response.body[i].score.num

\* C8: when the scorer call for time windows fails in any way, recommend does
\* not raise but goes on with the two fallback windows.
C8_ScorerFailureFallsBack ==
    (AfterTimeWindows /\ ScorerFailed) =>
        /\ pc # "agent_raised"
        /\ time_windows = FallbackWindows

\* C9: an entry whose start is not strictly before its end, or whose start or
\* end is no well-formed timestamp, never reaches row building, and no such
\* entry makes recommend raise.
C9_BadWindowsDropped ==
    (AfterTimeWindows /\ tw_response.kind = "json") =>
        /\ \A i \in 1..Len(time_windows) :
             /\ Parses(time_windows[i].start)
             /\ Parses(time_windows[i].end)
             /\ as_dt(time_windows[i].start) < as_dt(time_windows[i].end)
        /\ (\A i \in 1..Len(tw_response.body) : tw_response.body[i].score.num)
              => pc # "agent_raised"

\* C10: every accepted poi_index is a position of the POI list that was sent
\* to the selector (the first 60 candidates at most).
C10_PickWasSent ==
    pc = "agent_routes" =>
        \A i \in 1..Len(picks) :
            picks[i].poi_index \in 0..(Len(sent_pois) - 1)

-----------------------------------------------------------------------------
(* Properties of the candidate merge *)

\* the concatenation the merge loops over
MergedInput == pois_raw \o extra_pet

HasCoords(p) == ~Get(p, "lat", NoCoord).null /\ ~Get(p, "lon", NoCoord).null

\* the key of a merged entry
KeyOf(c) == <<c.name, Round5(c.lat), Round5(c.lon)>>

\* the positions of inp that have coordinates and whose key no earlier
\* position with coordinates has
FirstsOf(inp) ==
    LET sigs == [j \in 1..Len(inp) |-> Sig(inp[j])]
        ok == [j \in 1..Len(inp) |-> HasCoords(inp[j])]
    IN  {j \in 1..Len(inp) :
           ok[j] /\ \A j2 \in 1..(j - 1) : ~(ok[j2] /\ sigs[j2] = sigs[j])}

\* for each merged entry, the first input that has its key
SrcMap(inp, out) ==
    LET firsts == FirstsOf(inp)
    IN  [i \in 1..Len(out) |->
           CHOOSE j \in firsts : Sig(inp[j]) = KeyOf(out[i])]

SrcOf(i) == SrcMap(MergedInput, pois)[i]

\* C11: no two merged entries have the same key (name, lat and lon rounded
\* to 5 decimals); every merged entry is made from the first input of the
\* concatenation primary list then pet-friendly list that has its key; and
\* the merged entries are in the order of those inputs.
C11_DedupFirstWins ==
    pc = "agent_select" =>
      LET inp == MergedInput
          firsts == FirstsOf(inp)
          keys == [i \in 1..Len(pois) |-> KeyOf(pois[i])]
          src == SrcMap(inp, pois)
      IN  /\ \A i1, i2 \in 1..Len(pois) : i1 # i2 => keys[i1] # keys[i2]
          /\ \A i \in 1..Len(pois) :
               \E j \in firsts :
                   Sig(inp[j]) = keys[i] /\ pois[i] = Candidate(inp[j])
          /\ \A i1, i2 \in 1..Len(pois) : i1 < i2 => src[i1] < src[i2]

\* a place of the primary list is kept, a different place with the same key
\* in the pet-friendly list is dropped, and another entry follows
C11_Witness ==
    /\ pc = "agent_select"
    /\ Len(pois) >= 2
    /\ \E j1 \in 1..Len(pois_raw), j2 \in 1..Len(extra_pet) :
         /\ HasCoords(pois_raw[j1])
         /\ Sig(pois_raw[j1]) = Sig(extra_pet[j2])
         /\ Candidate(pois_raw[j1]) # Candidate(extra_pet[j2])
         /\ \E i \in 1..Len(pois) : pois[i] = Candidate(pois_raw[j1])

\* C12: merging a list with itself gives what merging it with the empty list
\* gives, and merging the merged list again gives the merged list.
C12_MergeIdempotent ==
    pc = "agent_select" =>
      /\ MergePois(MergedInput, MergedInput) = MergePois(MergedInput, <<>>)
      /\ MergePois(pois, <<>>) = pois

\* C13: the merged list has at most 80 entries.
C13_AtMost80 == pc = "agent_select" => Len(pois) <= 80

\* the two lists hold more than 80 places with different keys, 80 are kept
C13_Witness ==
    /\ pc = "agent_select"
    /\ Len(pois) = 80
    /\ Cardinality({Sig(MergedInput[j]) : j \in 1..Len(MergedInput)}) > 80

\* a pet-access tag with a recognised value, compared without regard to case
PetTagged(p) ==
    \E key \in {"dogs", "pets", "dog", "pet"} :
        /\ key \in DOMAIN Tags(p)
        /\ \E v \in {"yes", "permissive", "leashed"} : Lower(Tags(p)[key]) = v

KindByPrecedence(p) ==
    CASE Contains(RawKind(p), S_park) -> S_park
      [] ~Contains(RawKind(p), S_park)
         /\ (Contains(RawKind(p), S_foot) \/ Contains(RawKind(p), S_path))
           -> S_footway
      [] ~Contains(RawKind(p), S_park)
         /\ ~Contains(RawKind(p), S_foot) /\ ~Contains(RawKind(p), S_path)
         /\ (Get(p, "pet_friendly", FALSE) \/ PetTagged(p))
           -> S_pet_friendly
      [] OTHER -> S_other

\* C14: the kind of every merged entry is park if the raw kind of its input
\* contains "park"; else footway if it contains "foot" or "path"; else
\* pet_friendly if the input is flagged pet-friendly or has a dogs, pets, dog
\* or pet tag valued yes, permissive or leashed; else other.
C14_KindPrecedence ==
    pc = "agent_select" =>
      LET inp == MergedInput
          src == SrcMap(inp, pois)
      IN  \A i \in 1..Len(pois) :
              pois[i].kind = KindByPrecedence(inp[src[i]])

\* a pet-friendly place whose raw kind contains "foot" is a footway, and a
\* place with only a recognised tag is pet_friendly
C14_Witness ==
    /\ pc = "agent_select"
    /\ Len(pois) = 1
    /\ \/ pois[1].kind = S_footway /\ pois[1].pet_friendly
       \/ /\ pois[1].kind = S_pet_friendly
          /\ ~Get(MergedInput[SrcOf(1)], "pet_friendly", FALSE)

-----------------------------------------------------------------------------
(* Properties of the route score and of the route ranking *)

\* base + max(0, round(40 * (1500 - min(d, 1500)) / 1500)) for the kind kd
RoundedRouteScore(kd, d) ==
    (CASE kd = S_park -> 30
       [] kd \in {S_footway, S_path} -> 15
       [] OTHER -> 0)
    + Max(0, RoundDiv(40 * (1500 - Min(d, 1500)), 1500))

\* C15: the default route score is base + bonus with base 30 for a park, 15
\* for a footway or path, 0 otherwise, and bonus = max(0, round(40 * (1500 -
\* min(distance_m, 1500)) / 1500)); so a park at 0 m scores 70 and a route of
\* kind other at 1500 m scores 0.
C15_DefaultRouteScore ==
    pc = "route_score_done" =>
      score = RoundedRouteScore(chosen_routes[1].poi.kind,
                                chosen_routes[1].distance_m)

\* descending score, equal scores by ascending distance_m
RoutesRanked(rs) ==
    \A i, j \in 1..Len(rs) :
        i < j => \/ rs[i].score > rs[j].score
                 \/ /\ rs[i].score = rs[j].score
                    /\ rs[i].distance_m <= rs[j].distance_m

\* max_routes clamped to [1, 5]
ClampedMaxRoutes ==
    IF max_routes < 1 THEN 1 ELSE IF max_routes > 5 THEN 5 ELSE max_routes

\* C16 as stated: the returned routes are ranked by descending score then
\* ascending distance_m, and there are at most k of them, k being max_routes
\* clamped to [1, 5], and 3 in the deterministic path.
C16_RankedAndCutToClamped ==
    /\ pc = "agent_done" =>
         RoutesRanked(routes) /\ Len(routes) <= ClampedMaxRoutes
    /\ pc = "det_done" => RoutesRanked(routes) /\ Len(routes) <= 3

\* C16 amended: the returned routes are ranked by descending score then
\* ascending distance_m, and there are at most k of them, k being max_routes
\* clamped to [1, 5] except that a max_routes of 0 gives k = 3; and at most 3
\* in the deterministic path.
C16_RankedAndCut ==
    /\ pc = "agent_done" =>
         /\ RoutesRanked(routes)
         /\ k = (IF max_routes = 0 THEN 3 ELSE ClampedMaxRoutes)
         /\ Len(routes) <= k
    /\ pc = "det_done" => RoutesRanked(routes) /\ Len(routes) <= 3

\* max_routes is 0 and two routes are returned, in another order than the
\* one they were scored in
C16_Witness ==
    /\ pc = "agent_done"
    /\ max_routes = 0
    /\ Len(routes) = 2
    /\ routes # final_routes

\* the list rs in the order f
Permuted(rs, f) == [i \in 1..Len(rs) |-> rs[f[i]]]

\* C17: the ranked output is the same for every order of the same scored
\* route candidates, whatever the order in which the fetches completed.
C17_RankOrderIndependent ==
    pc = "agent_done" =>
      \A f \in Orders(Len(final_routes)) :
          RankRoutes(Permuted(final_routes, f), k) = routes

\* the fetch stage raised
FetchRaised == pc = "agent_raised" /\ score_response = NoResponse

\* C18: when the fetch for a selected destination fails (no route, or the
\* call raises), the request goes on and every selected destination whose
\* fetch succeeded is a route candidate.
C18_FailedFetchDropsOnlyThat ==
    (/\ pc # "agent_routes"
     /\ picks # <<>>
     /\ \E i \in 1..Len(picks) : route_results[i].kind \in {"none", "raises"})
    => /\ ~FetchRaised
       /\ \A i \in 1..Len(picks) :
            route_results[i].kind = "route" =>
              \E j \in 1..Len(chosen_routes) :
                  chosen_routes[j] =
                    ChosenRoute(pois[picks[i].poi_index + 1], route_results[i])

-----------------------------------------------------------------------------
(* Properties of the presented windows *)

\* the records of hr but the one at position j
Without(hr, j) ==
    [i \in 1..(Len(hr) - 1) |-> IF i < j THEN hr[i] ELSE hr[i + 1]]

\* hr with the record at position j replaced by a record that is not safe
AsUnsafe(hr, j) == [hr EXCEPT ![j] = Sample(hr[j].time, 10000, 60, 0)]

\* C19: one hourly record with a null temperature or wind does not abort the
\* extraction: the call returns the windows of the other records, the record
\* being skipped or counted as not safe.
C19_NullRecordTolerated ==
    (/\ pc \in {"rtw_done", "rtw_raised"}
     /\ Cardinality({i \in 1..Len(hourly) : Nulls(hourly[i]) # {}}) = 1)
    => /\ pc = "rtw_done"
       /\ LET j == CHOOSE i \in 1..Len(hourly) : Nulls(hourly[i]) # {}
          IN  windows \in
                {recommend_time_windows(Without(hourly, j), dog_size, age_years),
                 recommend_time_windows(AsUnsafe(hourly, j), dog_size,
                                        age_years)}

\* C20: the rows of the result are in descending order of score, after
\* _build_rows and after the time-window stage of _tool_recommend.
C20_RowsByScoreDesc ==
    pc \in {"rows_done", "agent_radius"} =>
      \A i, j \in 1..Len(rows) : i < j => rows[i].score >= rows[j].score

\* two rows, the later window first because its score is higher
C20_Witness ==
    /\ pc = "rows_done"
    /\ Len(rows) = 2
    /\ rows[1].score > rows[2].score
    /\ rows[1].from_h > rows[2].from_h

-----------------------------------------------------------------------------
(* Properties of the routes that are returned *)

\* C21: no route of the returned list has an empty geometry, in the
\* deterministic path and in the external-scorer path, whatever route_walking
\* answers
C21_NoEmptyGeometry ==
    pc \in {"agent_done", "det_done"} =>
        \A i \in 1..Len(routes) : routes[i].geometry # <<>>

-----------------------------------------------------------------------------
(* Properties of the scores *)

InRange100(v) == v \in 0..100

\* C22: every validated score of the external scorer (the windows' scores and
\* the routes' scores) is an integer in [0,100], and so is every route score
\* of a returned list and every score score_route gives
C22_ScoresInRange ==
    /\ \A i \in 1..Len(time_windows) : InRange100(time_windows[i].score)
    /\ \A i \in 1..Len(rows) : InRange100(rows[i].score)
    /\ \A i \in 1..Len(final_routes) : InRange100(final_routes[i].score)
    /\ \A i \in 1..Len(routes) : InRange100(routes[i].score)
    /\ pc = "route_score_done" => InRange100(score)

\* the route scorer answered 150 and -5 and both routes are returned
C22_Witness ==
    /\ pc = "agent_done"
    /\ score_response.kind = "json"
    /\ score_response.body = <<NumScore(150), NumScore(-5)>>
    /\ Len(routes) = 2
    /\ routes[1].score = 100
    /\ routes[2].score = 0

-----------------------------------------------------------------------------
(* Properties of the rows of _build_rows *)

\* the samples of the forecast whose timestamp lies in [start, end) of w
MembersOf(w) ==
    {i \in 1..Len(hourly) : /\ as_dt(w.start) <= as_dt(hourly[i].time)
                            /\ as_dt(hourly[i].time) < as_dt(w.end)}

\* the sum of the hourly comfort scores of the samples at the positions in S
RECURSIVE ComfortSum(_)
ComfortSum(S) ==
    IF S = {} THEN 0
    ELSE LET i == CHOOSE j \in S : TRUE
         IN  hourly_score(hourly[i], Threshold(dog_size, age_years))
             + ComfortSum(S \ {i})

\* v is an integer nearest to total / n
NearestToMean(v, total, n) ==
    /\ 2 * (n * v - total) <= n
    /\ 2 * (total - n * v) <= n

\* the extracted window a row displays
WindowsOfRow(r) ==
    LET wins == recommend_time_windows(hourly, dog_size, age_years)
    IN  {j \in 1..Len(wins) : /\ wins[j].start.h = r.from_h
                              /\ wins[j].end.h = r.to_h}

\* C23: in the deterministic path the score of each displayed window is the
\* rounded mean of the hourly comfort scores of exactly the samples with
\* start <= timestamp < end, and is an integer in [0,100]
C23_RowScoreIsRoundedMean ==
    pc = "rows_done" =>
        LET wins == recommend_time_windows(hourly, dog_size, age_years)
        IN  \A i \in 1..Len(rows) :
              /\ rows[i].score \in 0..100
              /\ \E j \in WindowsOfRow(rows[i]) :
                   LET S == MembersOf(wins[j])
                   IN  /\ S # {}
                       /\ NearestToMean(rows[i].score, ComfortSum(S),
                                        Cardinality(S))

\* a displayed window with three member samples whose mean is no integer
C23_Witness ==
    /\ pc = "rows_done"
    /\ LET wins == recommend_time_windows(hourly, dog_size, age_years)
       IN  \E i \in 1..Len(rows) : \E j \in WindowsOfRow(rows[i]) :
             LET S == MembersOf(wins[j])
             IN  /\ Cardinality(S) = 3
                 /\ ComfortSum(S) % 3 # 0

-----------------------------------------------------------------------------
(* Properties of the deterministic route stage *)

\* the places of the list for which route_walking answers a route with geometry
Routable ==
    {i \in 1..Len(pois) : /\ route_results[i].kind = "route"
                          /\ route_results[i].geometry # <<>>}

Returned(i) == \E j \in 1..Len(routes) : routes[j].poi = pois[i]

\* C24: in the deterministic path the returned routes are the k = 3 best, by
\* descending score and ascending distance, among all discovered places with a
\* route with geometry: none of these outside the returned list ranks strictly
\* ahead of a returned route
C24_DetBestOfAllRoutable ==
    pc = "det_done" =>
        /\ Len(routes) = Min(MAX_ROUTES, Cardinality(Routable))
        /\ \A i \in Routable :
             ~Returned(i) =>
                 \A j \in 1..Len(routes) :
                    ~RouteBefore(DetRoute(pois[i], route_results[i]), routes[j])

-----------------------------------------------------------------------------
(* Properties of the external-scorer path after the destination request *)

\* the destination request has been answered without raising
Selected ==
    /\ pc \in {"agent_routes", "agent_score", "agent_done", "agent_raised"}
    /\ sel_response # NoResponse
    /\ ~gpt_select_routes(sel_response, pois, k).raised

\* C25: when the destination selector yields no valid selection (also when
\* there is no candidate at all), the request does not raise, and it returns
\* an empty route list and the rows of the time windows
C25_NoSelectionGivesEmptyRoutes ==
    (Selected /\ picks = <<>>) =>
        /\ pc # "agent_raised"
        /\ pc = "agent_done" => routes = <<>>

\* C26: when the route scorer answers with fewer scores than there are routed
\* candidates (also with none), every routed candidate is still in the list
\* that is ranked, with a score
C26_UnscoredRoutesKept ==
    pc = "agent_done" =>
        /\ Len(final_routes) = Len(chosen_routes)
        /\ \A i \in 1..Len(chosen_routes) :
             \E j \in 1..Len(final_routes) :
                /\ final_routes[j].poi = chosen_routes[i].poi
                /\ final_routes[j].distance_m = chosen_routes[i].distance_m

\* C29: the returned route list never holds the same destination twice, for
\* every answer of the selector, one that repeats a poi_index included
C29_NoDestinationTwice ==
    pc = "agent_done" =>
        \A i, j \in 1..Len(routes) :
            i # j => routes[i].poi # routes[j].poi

-----------------------------------------------------------------------------
(* Coverage of the safe samples *)

\* C27: every safe sample's timestamp lies in [start, end) of exactly one
\* returned window, a safe sample that is the last of the sequence included
C27_SafeSamplesCovered ==
    pc = "rtw_done" =>
        \A i \in 1..Len(hourly) :
            IsSafe(hourly[i], Threshold(dog_size, age_years)) =>
                Cardinality({wi \in 1..Len(windows) :
                                InWindow(hourly[i], windows[wi])}) = 1

-----------------------------------------------------------------------------
(* The least score of a displayed window *)

\* 50 + int((threshold - t_surf) * 6), the score before the penalties
BaseScore(h) ==
    LET apparent == IF h.time.h \in 9..16 THEN h.temp + 400 ELSE h.temp
        delta == Threshold(dog_size, age_years) - apparent
    IN  50 + (IF delta >= 0 THEN (delta * 6) \div 100
              ELSE -((-delta * 6) \div 100))

\* C28: in the deterministic path every hour that is a member of an extracted
\* window has a base score of at least 50 and a wind of at least 0.5 (no -5
\* penalty), so with humidity <= 100 every displayed window scores at least 35
C28_WindowScoreAtLeast35 ==
    pc = "rows_done" =>
        LET wins == recommend_time_windows(hourly, dog_size, age_years)
        IN  /\ \A j \in 1..Len(wins) : \A i \in MembersOf(wins[j]) :
                 /\ BaseScore(hourly[i]) >= 50
                 /\ hourly[i].wind >= 50
            /\ (\A i \in 1..Len(hourly) : hourly[i].rh <= 100) =>
                 \A i \in 1..Len(rows) : rows[i].score >= 35

\* a displayed window whose hours are at the threshold, with wind above 6 m/s
\* and humidity 100: its score is 35
C28_Witness ==
    /\ pc = "rows_done"
    /\ \E i \in 1..Len(rows) : rows[i].score = 35
    /\ \E i \in 1..Len(hourly) :
         /\ BaseScore(hourly[i]) = 50
         /\ hourly[i].wind > 600
         /\ hourly[i].rh = 100

-----------------------------------------------------------------------------
(* The radius of the POI queries *)

\* C30: in the external-scorer path the radius of the POI queries is within
\* [300, 2000] metres, and a request that differs only in the radius_m it
\* asks for makes its queries with the same radius
C30_RadiusIgnoresRequest ==
    pc = "agent_pois" =>
        /\ radius_m_eff \in 300..2000
        /\ \A other \in RadiusInputs :
             radius_stage(other, dog_size, age_years,
                          BestAvgTemp(rows, time_windows, hourly))
               = radius_m_eff

\* a request for 5000 metres on a morning warmer than the threshold: the
\* queries are made with a radius below 2000 metres
C30_Witness ==
    /\ pc = "agent_pois"
    /\ radius_m = 5000
    /\ ~BestAvgTemp(rows, time_windows, hourly).null
    /\ BestAvgTemp(rows, time_windows, hourly).val * 10
         > Threshold(dog_size, age_years)
    /\ radius_m_eff < 2000

====
